---- MODULE Spec2Model ----
(***************************************************************************)
(* A model of the sessionlogger package.                                   *)
(*                                                                         *)
(* src/logger.go holds two versions of the package: the Config based one   *)
(* (lines 1-129: the ID service is started by init(), loggers are built    *)
(* from a config) and the older global-state one (lines 131-260: the ID    *)
(* service and the three global sinks are set up by InitalizeLogger).      *)
(* Spec is the Config based program, SpecLegacy the global-state one; they *)
(* share the ID generator, the hand-off channel and the log.Logger model.  *)
(*                                                                         *)
(* The methods of src/logger.go have the receiver *Config and call         *)
(* lc.GetWriter, which src/config.go defines on *LoggerConfig: the two     *)
(* names are the same type.                                                *)
(***************************************************************************)
EXTENDS Integers, Sequences, FiniteSets, TLC

\* ---------------------------------------------------------------- bounds
NumProcs == 2      \* goroutines of the program that call into the package
MaxLoggers == 2    \* loggers constructed in one run
MaxWrites == 1     \* lines the program logs itself (construction lines excluded)
MaxCalls == 2      \* calls that configure (Disable, Writer, GetWriter, field writes; InitalizeLogger) in one run
MaxLevelArg == 4   \* largest level value passed to the config methods

Procs == 1..NumProcs
LevelArgs == (0 - 1)..MaxLevelArg
Endpoints == {"foo", ""}
Msgs == {"m"}

\* ------------------------------------------------------- config.go: levels
Info == 0
Warn == 1
Err == 2
\* the number the three level checks compare with (l > 3)
LevelCheckMax == 3
\* the indices of the arrays [3]bool and [3]io.Writer
LevelIndex == 0..2

\* ------------------------------------------------------- config.go: sinks
\* An io.Writer value: its identity (kind) and the streams a Write reaches,
\* in order.
Stdout == [kind |-> "stdout", ws |-> <<"stdout">>]
Stderr == [kind |-> "stderr", ws |-> <<"stderr">>]
Discard == [kind |-> "discard", ws |-> <<>>]
NilWriter == [kind |-> "nil", ws |-> <<>>]
\* io.MultiWriter(w...): one Write is repeated on every listed writer in order
MultiWriter(w) == [kind |-> "multi", ws |-> w]

\* the log directories the program passes to InitalizeLogger ("": no log file)
LogDirs == {"", "logs"}
\* the streams: the two standard ones, the recorders the program passes to
\* Writer, and the log file created in a directory
Streams == {"stdout", "stderr", "w1", "w2"} \cup (LogDirs \ {""})
\* the writer lists the program passes to Writer
WriterArgs == {<<"w1">>, <<"w1", "w2">>}

\* defaults that send errors to standard output too
defaultWritersAllStdout == <<Stdout, Stdout, Stdout>>

defaultWriters == <<Stdout, Stdout, Stderr>>

ZeroConfig == [Disabled |-> [l \in LevelIndex |-> FALSE],
               Writers |-> [l \in LevelIndex |-> NilWriter]]

\* The outcome of a call: the panic it ends with ("none": it returns), the
\* config it leaves, the writer it returns (GetWriter only).
Outcome(p, c, r) == [panic |-> p, cfg |-> c, ret |-> r]

\* Disable(l)
DisableCall(lc, l) ==
    IF l < 0 \/ l > LevelCheckMax
    THEN Outcome("LevelOutOfRange", lc, NilWriter)
    ELSE IF l \notin LevelIndex
    THEN Outcome("IndexOutOfRange", lc, NilWriter)
    ELSE Outcome("none", [lc EXCEPT !.Disabled[l] = TRUE], NilWriter)

\* a Writer that also enables the level again
WriterCallEnables(lc, l, w) ==
    IF l < 0 \/ l > LevelCheckMax
    THEN Outcome("LevelOutOfRange", lc, NilWriter)
    ELSE IF l \notin LevelIndex
    THEN Outcome("IndexOutOfRange", lc, NilWriter)
    ELSE Outcome("none", [lc EXCEPT !.Writers[l] = MultiWriter(w), !.Disabled[l] = FALSE],
                 NilWriter)

\* Writer(l, w...)
WriterCall(lc, l, w) ==
    IF l < 0 \/ l > LevelCheckMax
    THEN Outcome("LevelOutOfRange", lc, NilWriter)
    ELSE IF l \notin LevelIndex
    THEN Outcome("IndexOutOfRange", lc, NilWriter)
    ELSE Outcome("none", [lc EXCEPT !.Writers[l] = MultiWriter(w)], NilWriter)

\* a GetWriter that looks at the configured writer before the Disabled flag
GetWriterCallWritersFirst(lc, l) ==
    IF l < 0 \/ l > LevelCheckMax
    THEN Outcome("none", lc, Stdout)
    ELSE IF l \notin LevelIndex
    THEN Outcome("IndexOutOfRange", lc, NilWriter)
    ELSE IF lc.Writers[l] # NilWriter
    THEN Outcome("none", lc, lc.Writers[l])
    ELSE IF lc.Disabled[l]
    THEN Outcome("none", lc, Discard)
    ELSE Outcome("none", lc, defaultWriters[l + 1])

\* GetWriter(l)
GetWriterCall(lc, l) ==
    IF l < 0 \/ l > LevelCheckMax
    THEN Outcome("none", lc, Stdout)
    ELSE IF l \notin LevelIndex
    THEN Outcome("IndexOutOfRange", lc, NilWriter)
    ELSE IF lc.Disabled[l]
    THEN Outcome("none", lc, Discard)
    ELSE IF lc.Writers[l] = NilWriter
    THEN Outcome("none", lc, defaultWriters[l + 1])
    ELSE Outcome("none", lc, lc.Writers[l])

\* GetWriter(l) for the three constants Info, Warn, Err, where it returns
GetWriter(lc, l) == GetWriterCall(lc, l).ret

\* -------------------------------------------------------------- state
VARIABLES
    cfg,           \* DefaultConfig
    last,          \* the last config call: its method, level and outcome
    ncalls,        \* configuring calls made so far
    disableCalled, \* history: the levels on which Disable has returned
    writerCalled,  \* history: the levels on which Writer has returned
    logIDService,  \* the package variable: 0 is the nil channel, g the channel of generator g
    gens,          \* the generator goroutines started so far: position and tokens generated
    pc,            \* where each calling goroutine stands
    loc,           \* its locals
    ret,           \* what its last InitalizeLogger or MustInitalizeLogger call ended with
    delivered,     \* history: the receives completed, in order
    loggers,       \* the Loggers constructed
    born,          \* history: how each one was constructed
    out,           \* the lines each stream has been given
    nwrites,       \* lines logged by the program itself
    lastWrite,     \* history: the last line logged, through which logger and writer
    infoLog, warnLog, errorLog, \* the global sinks of the global-state version
    loggerInitted, \* its initialized flag
    succeeded      \* history: InitalizeLogger calls that returned nil

cfgVars == <<cfg, last, ncalls, disableCalled, writerCalled>>
idVars == <<logIDService, gens, delivered>>
procVars == <<pc, loc, ret>>
logVars == <<loggers, born, out, nwrites, lastWrite>>
legacyVars == <<infoLog, warnLog, errorLog, loggerInitted, succeeded>>
vars == <<cfgVars, idVars, procVars, logVars, legacyVars>>

NoCall == [op |-> "none", l |-> 0, panic |-> "none", ret |-> NilWriter, changed |-> FALSE,
           before |-> ZeroConfig]
NoLoc == [ch |-> 0, endpoint |-> "", id |-> "", logdir |-> "", must |-> FALSE]
NoRet == [call |-> "none", err |-> "none", panic |-> "none"]
\* no line on any stream
NoLines == [s \in Streams |-> <<>>]
NoWrite == [logger |-> 0, level |-> 0, sink |-> NilWriter, panic |-> "none",
            reached |-> {}, wrote |-> NoLines]

\* the lines by which the streams o2 extend the streams o1
Appended(o2, o1) == [s \in Streams |-> SubSeq(o2[s], Len(o1[s]) + 1, Len(o2[s]))]

\* what both versions start from, but for the generator
InitCommon ==
    /\ cfg = ZeroConfig
    /\ last = NoCall
    /\ ncalls = 0
    /\ disableCalled = {}
    /\ writerCalled = {}
    /\ logIDService = 0
    /\ delivered = <<>>
    /\ pc = [p \in Procs |-> "idle"]
    /\ loc = [p \in Procs |-> NoLoc]
    /\ ret = [p \in Procs |-> NoRet]
    /\ loggers = <<>>
    /\ born = <<>>
    /\ out = [s \in Streams |-> <<>>]
    /\ nwrites = 0
    /\ lastWrite = NoWrite
    /\ infoLog = NilWriter
    /\ warnLog = NilWriter
    /\ errorLog = NilWriter
    /\ loggerInitted = FALSE
    /\ succeeded = 0

\* a goroutine that go func() has started and that has not run yet
NewGen == [pc |-> "start", n |-> 0]

\* init(): the generator goroutine is started before main runs
Init ==
    /\ InitCommon
    /\ gens = <<NewGen>>

\* ------------------------------------------------- the ID service goroutine
\* idsource.MustGenerate(): shortid's tokens are opaque; the n-th token of
\* generator g is written g-n, so one generator never repeats a token.
MustGenerate(g, n) == ToString(g) \o "-" \o ToString(n)

\* c := make(chan string); logIDService = c; idsource := shortid.MustNew(...)
GenMake(g) ==
    /\ g \in DOMAIN gens
    /\ gens[g].pc = "start"
    /\ gens' = [gens EXCEPT ![g].pc = "gen"]
    /\ logIDService' = g
    /\ UNCHANGED <<delivered, cfgVars, procVars, logVars, legacyVars>>

\* a generator that drops every other token
GenGenerateSkips(g) ==
    /\ g \in DOMAIN gens
    /\ gens[g].pc = "gen"
    /\ gens' = [gens EXCEPT ![g] = [pc |-> "send", n |-> @.n + 2]]
    /\ UNCHANGED <<logIDService, delivered, cfgVars, procVars, logVars, legacyVars>>

\* the operand of the send, idsource.MustGenerate(), is evaluated; the
\* goroutine then waits in c <- for a receiver
GenGenerate(g) ==
    /\ g \in DOMAIN gens
    /\ gens[g].pc = "gen"
    /\ gens' = [gens EXCEPT ![g] = [pc |-> "send", n |-> @.n + 1]]
    /\ UNCHANGED <<logIDService, delivered, cfgVars, procVars, logVars, legacyVars>>

\* a hand-off that leaves the token in the channel
HandOffKeepsToken(p, nextpc) ==
    /\ loc[p].ch \in DOMAIN gens
    /\ gens[loc[p].ch].pc = "send"
    /\ loc' = [loc EXCEPT ![p].id = MustGenerate(loc[p].ch, gens[loc[p].ch].n)]
    /\ delivered' = Append(delivered, [proc |-> p, gen |-> loc[p].ch,
                                        token |-> MustGenerate(loc[p].ch, gens[loc[p].ch].n)])
    /\ UNCHANGED gens
    /\ pc' = [pc EXCEPT ![p] = nextpc]

\* a receive that reads logIDService again whenever it looks for a sender
HandOffRereads(p, nextpc) ==
    /\ logIDService \in DOMAIN gens
    /\ gens[logIDService].pc = "send"
    /\ loc' = [loc EXCEPT ![p].id = MustGenerate(logIDService, gens[logIDService].n)]
    /\ delivered' = Append(delivered, [proc |-> p, gen |-> logIDService,
                                        token |-> MustGenerate(logIDService,
                                                               gens[logIDService].n)])
    /\ gens' = [gens EXCEPT ![logIDService].pc = "gen"]
    /\ pc' = [pc EXCEPT ![p] = nextpc]

\* The unbuffered channel: the send of generator g and the receive of a caller
\* that waits on g's channel complete together. A caller that read the nil
\* channel (ch = 0) waits forever.
HandOff(p, nextpc) ==
    /\ loc[p].ch \in DOMAIN gens
    /\ gens[loc[p].ch].pc = "send"
    /\ loc' = [loc EXCEPT ![p].id = MustGenerate(loc[p].ch, gens[loc[p].ch].n)]
    /\ delivered' = Append(delivered, [proc |-> p, gen |-> loc[p].ch,
                                        token |-> MustGenerate(loc[p].ch, gens[loc[p].ch].n)])
    /\ gens' = [gens EXCEPT ![loc[p].ch].pc = "gen"]
    /\ pc' = [pc EXCEPT ![p] = nextpc]

\* ------------------------------------------------------------ log.Logger
\* log.New(out, prefix, flags)
LogNew(w, prefix) == [out |-> w, prefix |-> prefix]

\* what the flags Ldate|Ltime|Lshortfile put between the prefix and the
\* message: date, time and file:line, which the model does not tell apart
Header == "<date time file> "

\* the line one Println(msg) hands to the writer in one Write
Line(lg, msg) == lg.prefix \o Header \o msg \o "\n"

\* a fan-out that stops after its first writer
WriteAllFirstOnly(o, ws, line) ==
    IF ws = <<>> THEN o ELSE [o EXCEPT ![Head(ws)] = Append(@, line)]

RECURSIVE WriteAll(_, _, _)
\* one Write on each listed stream, in order
WriteAll(o, ws, line) ==
    IF ws = <<>> THEN o
    ELSE WriteAll([o EXCEPT ![Head(ws)] = Append(@, line)], Tail(ws), line)

\* w.Write(line): ioutil.Discard and an empty MultiWriter reach no stream
Write(o, w, line) == WriteAll(o, w.ws, line)

\* newLogger(prefix) of the Config version
newLogger(lc, prefix) ==
    [I |-> LogNew(GetWriter(lc, Info), "INFO" \o prefix \o ": "),
     W |-> LogNew(GetWriter(lc, Warn), "WARN" \o prefix \o ": "),
     E |-> LogNew(GetWriter(lc, Err), " ERR" \o prefix \o ": "),
     ID |-> ""]

\* the *log.Logger of a level
Level(lg, l) == IF l = Info THEN lg.I ELSE IF l = Warn THEN lg.W ELSE lg.E

\* a logger that asks the config for its writer when it writes
LoggerSinkLate(i, l) == GetWriter(cfg, l)

\* the writer the level l of logger i writes to: the out of its log.Logger
LoggerSink(i, l) == Level(loggers[i], l).out

\* a prefix that leaves the endpoint out
SessionPrefixNoEndpoint(endpoint, id) == "@" \o ":" \o id

\* "@" + endpoint + ":" + id
SessionPrefix(endpoint, id) == "@" \o endpoint \o ":" \o id

InFlight == Cardinality({p \in Procs : pc[p] \in {"recv", "build", "lrecv", "lbuild"}})

\* history of a construction: the call, the token it received, the writers
\* resolved for it, the levels Disable had been called on, the lines the
\* construction wrote
Birth(kind, p, e, tok, resolved, wrote) ==
    [kind |-> kind, proc |-> p, endpoint |-> e, token |-> tok,
     resolved |-> resolved, disabledBefore |-> disableCalled, wrote |-> wrote]

\* what GetWriter answers for the three levels now
Resolved == [l \in LevelIndex |-> GetWriter(cfg, l)]

\* the three global sinks now
LegacyResolved == [l \in LevelIndex |->
                     IF l = Info THEN infoLog ELSE IF l = Warn THEN warnLog ELSE errorLog]

\* ------------------------------------------- the Config version's loggers
\* a NewMasterLogger that draws a token from the ID service as well
NewMasterLoggerTakesToken ==
    /\ Len(loggers) + InFlight < MaxLoggers
    /\ logIDService \in DOMAIN gens
    /\ gens[logIDService].pc = "send"
    /\ gens' = [gens EXCEPT ![logIDService].pc = "gen"]
    /\ LET lg == [newLogger(cfg, "") EXCEPT !.ID = "MASTER"]
       IN /\ loggers' = Append(loggers, lg)
          /\ born' = Append(born, Birth("master", 0, "", "", Resolved, NoLines))
    /\ UNCHANGED <<logIDService, delivered, out, nwrites, lastWrite, cfgVars, procVars,
                   legacyVars>>

\* (lc *Config) NewMasterLogger()
NewMasterLogger ==
    /\ Len(loggers) + InFlight < MaxLoggers
    /\ LET lg == [newLogger(cfg, "") EXCEPT !.ID = "MASTER"]
       IN /\ loggers' = Append(loggers, lg)
          /\ born' = Append(born, Birth("master", 0, "", "", Resolved, NoLines))
    /\ UNCHANGED <<out, nwrites, lastWrite, cfgVars, idVars, procVars, legacyVars>>

\* (lc *Config) NewSessionLogger(endpoint), up to the receive: the channel
\* operand logIDService is read, with no synchronisation with the generator
\* goroutine that assigns it
NewSessionLogger(p, endpoint) ==
    /\ pc[p] = "idle"
    /\ Len(loggers) + InFlight < MaxLoggers
    /\ pc' = [pc EXCEPT ![p] = "recv"]
    /\ loc' = [loc EXCEPT ![p] = [NoLoc EXCEPT !.ch = logIDService, !.endpoint = endpoint]]
    /\ UNCHANGED <<ret, cfgVars, idVars, logVars, legacyVars>>

\* id := <-logIDService
Receive(p) ==
    /\ pc[p] = "recv"
    /\ HandOff(p, "build")
    /\ UNCHANGED <<logIDService, ret, cfgVars, logVars, legacyVars>>

\* a NewSessionLogger that prints its blank line at the warning level
BuildSessionLoggerWarn(p) ==
    /\ pc[p] = "build"
    /\ LET lg == [newLogger(cfg, SessionPrefix(loc[p].endpoint, loc[p].id))
                    EXCEPT !.ID = loc[p].id]
       IN /\ loggers' = Append(loggers, lg)
          /\ out' = Write(out, lg.W.out, Line(lg.W, ""))
          /\ born' = Append(born, Birth("session", p, loc[p].endpoint, loc[p].id, Resolved,
                                        Appended(out', out)))
    /\ pc' = [pc EXCEPT ![p] = "idle"]
    /\ loc' = [loc EXCEPT ![p] = NoLoc]
    /\ UNCHANGED <<ret, nwrites, lastWrite, cfgVars, idVars, legacyVars>>

\* log := lc.newLogger("@" + endpoint + ":" + id); log.ID = id;
\* log.I.Println(""); return log
BuildSessionLogger(p) ==
    /\ pc[p] = "build"
    /\ LET lg == [newLogger(cfg, SessionPrefix(loc[p].endpoint, loc[p].id))
                    EXCEPT !.ID = loc[p].id]
       IN /\ loggers' = Append(loggers, lg)
          /\ out' = Write(out, lg.I.out, Line(lg.I, ""))
          /\ born' = Append(born, Birth("session", p, loc[p].endpoint, loc[p].id, Resolved,
                                        Appended(out', out)))
    /\ pc' = [pc EXCEPT ![p] = "idle"]
    /\ loc' = [loc EXCEPT ![p] = NoLoc]
    /\ UNCHANGED <<ret, nwrites, lastWrite, cfgVars, idVars, legacyVars>>

\* log.I.Println(msg), log.W.Println(msg) or log.E.Println(msg) on a logger
\* the program holds; a nil writer makes the Write panic
LogWrite(i, l, msg) ==
    /\ i \in DOMAIN loggers
    /\ nwrites < MaxWrites
    /\ nwrites' = nwrites + 1
    /\ LET w == LoggerSink(i, l)
       IN /\ out' = IF w = NilWriter THEN out
                    ELSE Write(out, w, Line(Level(loggers[i], l), msg))
          /\ lastWrite' = [logger |-> i, level |-> l, sink |-> w,
                           panic |-> IF w = NilWriter THEN "NilWriter" ELSE "none",
                           reached |-> {s \in Streams : out'[s] # out[s]},
                           wrote |-> Appended(out', out)]
    /\ UNCHANGED <<loggers, born, cfgVars, idVars, procVars, legacyVars>>

\* ------------------------------------------------- calls on the config
ConfigCall(op, l, before, o) ==
    /\ ncalls < MaxCalls
    /\ ncalls' = ncalls + 1
    /\ cfg' = o.cfg
    /\ last' = [op |-> op, l |-> l, panic |-> o.panic, ret |-> o.ret,
                changed |-> o.cfg # before, before |-> before]
    /\ UNCHANGED <<idVars, procVars, logVars, legacyVars>>

Disable(l) ==
    /\ ConfigCall("Disable", l, cfg, DisableCall(cfg, l))
    /\ disableCalled' = IF DisableCall(cfg, l).panic = "none"
                        THEN disableCalled \cup {l} ELSE disableCalled
    /\ UNCHANGED writerCalled

Writer(l, w) ==
    /\ ConfigCall("Writer", l, cfg, WriterCall(cfg, l, w))
    /\ writerCalled' = IF WriterCall(cfg, l, w).panic = "none"
                       THEN writerCalled \cup {l} ELSE writerCalled
    /\ UNCHANGED disableCalled

CallGetWriter(l) ==
    /\ ConfigCall("GetWriter", l, cfg, GetWriterCall(cfg, l))
    /\ UNCHANGED <<disableCalled, writerCalled>>

\* "You can either fill it out manually, or use the provided helper
\* functions": the program assigns to an element of a field itself
FieldWrite(c) ==
    /\ ncalls < MaxCalls
    /\ ncalls' = ncalls + 1
    /\ cfg' = c
    /\ last' = [op |-> "field", l |-> 0, panic |-> "none", ret |-> NilWriter,
                changed |-> c # cfg, before |-> cfg]
    /\ UNCHANGED <<disableCalled, writerCalled, idVars, procVars, logVars, legacyVars>>

\* lc.Disabled[l] = d
SetDisabled(l, d) == FieldWrite([cfg EXCEPT !.Disabled[l] = d])

\* lc.Writers[l] = w
SetWriters(l, w) == FieldWrite([cfg EXCEPT !.Writers[l] = w])

\* the writers the program assigns to Writers itself (nil: back to the default)
FieldWriters == {NilWriter, Stderr}

\* ------------------------------------------------ the Config version
Next ==
    \/ \E g \in DOMAIN gens : GenMake(g)
    \/ \E g \in DOMAIN gens : GenGenerate(g)
    \/ NewMasterLogger
    \/ \E p \in Procs, e \in Endpoints : NewSessionLogger(p, e)
    \/ \E p \in Procs : Receive(p)
    \/ \E p \in Procs : BuildSessionLogger(p)
    \/ \E i \in DOMAIN loggers, l \in LevelIndex, m \in Msgs : LogWrite(i, l, m)
    \/ \E l \in LevelArgs : Disable(l)
    \/ \E l \in LevelArgs, w \in WriterArgs : Writer(l, w)
    \/ \E l \in LevelArgs : CallGetWriter(l)

Spec == Init /\ [][Next]_vars

\* the Config version of a program that also fills the config by hand
NextFields ==
    \/ Next
    \/ \E l \in LevelIndex, d \in BOOLEAN : SetDisabled(l, d)
    \/ \E l \in LevelIndex, w \in FieldWriters : SetWriters(l, w)

SpecFields == Init /\ [][NextFields]_vars

\* Scheduling: the Go scheduler runs every runnable goroutine again, and a
\* channel serves its waiting receivers first come first served, so a receiver
\* that can complete over and over does complete.
Fairness ==
    /\ WF_vars(GenMake(1))
    /\ WF_vars(GenGenerate(1))
    /\ \A p \in Procs : SF_vars(Receive(p)) /\ WF_vars(BuildSessionLogger(p))

FairSpec == Spec /\ Fairness

\* -------------------------------------------- the global-state version
\* The older version of the package (src/logger.go from line 131). Its
\* InitalizeLogger returns ErrLoggerAlreadyInitalized where the package
\* declares ErrAlreadyInitalized: the model takes the two for one error.

InitLegacy ==
    /\ InitCommon
    /\ gens = <<>>

\* MustInitalizeLogger: panic("..." + InitalizeLogger(logdir).Error()). The
\* panic is not under any condition; Error() on the nil error of a successful
\* call is a nil dereference, itself a panic.
MustInitalizeLoggerPanic(err) ==
    IF err = "nil" THEN "NilDereference" ELSE "InitializationFailed"

\* InitalizeLogger returns err to its caller, which is the program or
\* MustInitalizeLogger
Return(p, must, err) ==
    /\ pc' = [pc EXCEPT ![p] = "idle"]
    /\ loc' = [loc EXCEPT ![p] = NoLoc]
    /\ ret' = [ret EXCEPT ![p] =
                 [call |-> IF must THEN "MustInitalizeLogger" ELSE "InitalizeLogger",
                  err |-> err,
                  panic |-> IF must THEN MustInitalizeLoggerPanic(err) ELSE "none"]]
    /\ succeeded' = IF err = "nil" THEN succeeded + 1 ELSE succeeded

\* InitalizeLogger(logdir), or MustInitalizeLogger(logdir) (must), up to its
\* guard: if loggerInitted { return ErrLoggerAlreadyInitalized }
InitalizeLogger(p, logdir, must) ==
    /\ pc[p] = "idle"
    /\ ncalls < MaxCalls
    /\ ncalls' = ncalls + 1
    /\ IF loggerInitted
       THEN Return(p, must, "ErrAlreadyInitalized")
       ELSE /\ pc' = [pc EXCEPT ![p] = "files"]
            /\ loc' = [loc EXCEPT ![p] = [NoLoc EXCEPT !.logdir = logdir, !.must = must]]
            /\ UNCHANGED <<ret, succeeded>>
    /\ UNCHANGED <<infoLog, warnLog, errorLog, loggerInitted, cfg, last, disableCalled,
                   writerCalled, idVars, logVars>>

\* an InitalizeLogger that sets the standard sinks before it creates the file
InitalizeFilesAssignsFirst(p) ==
    /\ pc[p] = "files"
    /\ \/ /\ loc[p].logdir # ""
          /\ \E err \in {"ErrMkdirAll", "ErrCreate"} : Return(p, loc[p].must, err)
          /\ infoLog' = Stdout
          /\ warnLog' = Stdout
          /\ errorLog' = Stderr
       \/ /\ loc[p].logdir # ""
          /\ infoLog' = MultiWriter(<<loc[p].logdir, "stdout">>)
          /\ warnLog' = MultiWriter(<<loc[p].logdir, "stdout">>)
          /\ errorLog' = MultiWriter(<<loc[p].logdir, "stderr">>)
          /\ pc' = [pc EXCEPT ![p] = "spawn"]
          /\ UNCHANGED <<loc, ret, succeeded>>
       \/ /\ loc[p].logdir = ""
          /\ infoLog' = Stdout
          /\ warnLog' = Stdout
          /\ errorLog' = Stderr
          /\ pc' = [pc EXCEPT ![p] = "spawn"]
          /\ UNCHANGED <<loc, ret, succeeded>>
    /\ UNCHANGED <<loggerInitted, cfgVars, idVars, logVars>>

\* the log file: os.MkdirAll and os.Create may fail; the three sinks are set
InitalizeFiles(p) ==
    /\ pc[p] = "files"
    /\ \/ /\ loc[p].logdir # ""
          /\ \E err \in {"ErrMkdirAll", "ErrCreate"} : Return(p, loc[p].must, err)
          /\ UNCHANGED <<infoLog, warnLog, errorLog>>
       \/ /\ loc[p].logdir # ""
          /\ infoLog' = MultiWriter(<<loc[p].logdir, "stdout">>)
          /\ warnLog' = MultiWriter(<<loc[p].logdir, "stdout">>)
          /\ errorLog' = MultiWriter(<<loc[p].logdir, "stderr">>)
          /\ pc' = [pc EXCEPT ![p] = "spawn"]
          /\ UNCHANGED <<loc, ret, succeeded>>
       \/ /\ loc[p].logdir = ""
          /\ infoLog' = Stdout
          /\ warnLog' = Stdout
          /\ errorLog' = Stderr
          /\ pc' = [pc EXCEPT ![p] = "spawn"]
          /\ UNCHANGED <<loc, ret, succeeded>>
    /\ UNCHANGED <<loggerInitted, cfgVars, idVars, logVars>>

\* go func() { ... }(): one more generator goroutine
InitalizeSpawn(p) ==
    /\ pc[p] = "spawn"
    /\ gens' = Append(gens, NewGen)
    /\ pc' = [pc EXCEPT ![p] = "mark"]
    /\ UNCHANGED <<logIDService, delivered, loc, ret, cfgVars, logVars, legacyVars>>

\* an InitalizeLogger that returns nil without setting the flag
InitalizeMarkForgets(p) ==
    /\ pc[p] = "mark"
    /\ UNCHANGED loggerInitted
    /\ Return(p, loc[p].must, "nil")
    /\ UNCHANGED <<infoLog, warnLog, errorLog, cfgVars, idVars, logVars>>

\* loggerInitted = true; return nil
InitalizeMark(p) ==
    /\ pc[p] = "mark"
    /\ loggerInitted' = TRUE
    /\ Return(p, loc[p].must, "nil")
    /\ UNCHANGED <<infoLog, warnLog, errorLog, cfgVars, idVars, logVars>>

\* newLogger(prefix) of the global-state version, whose Logger has no ID
LegacyNewLogger(prefix) ==
    [I |-> LogNew(infoLog, "INFO" \o prefix \o ": "),
     W |-> LogNew(warnLog, "WARN" \o prefix \o ": "),
     E |-> LogNew(errorLog, " ERR" \o prefix \o ": "),
     ID |-> ""]

\* NewMasterLogger() of the global-state version
LegacyNewMasterLogger ==
    /\ Len(loggers) + InFlight < MaxLoggers
    /\ LET lg == LegacyNewLogger("")
       IN /\ loggers' = Append(loggers, lg)
          /\ born' = Append(born, Birth("master", 0, "", "", LegacyResolved, NoLines))
    /\ UNCHANGED <<out, nwrites, lastWrite, cfgVars, idVars, procVars, legacyVars>>

\* NewSessionLogger(endpoint) of the global-state version, up to the receive
LegacyNewSessionLogger(p, endpoint) ==
    /\ pc[p] = "idle"
    /\ Len(loggers) + InFlight < MaxLoggers
    /\ pc' = [pc EXCEPT ![p] = "lrecv"]
    /\ loc' = [loc EXCEPT ![p] = [NoLoc EXCEPT !.ch = logIDService, !.endpoint = endpoint]]
    /\ UNCHANGED <<ret, cfgVars, idVars, logVars, legacyVars>>

\* <-logIDService
LegacyReceive(p) ==
    /\ pc[p] = "lrecv"
    /\ HandOff(p, "lbuild")
    /\ UNCHANGED <<logIDService, ret, cfgVars, logVars, legacyVars>>

\* return newLogger("@" + endpoint + ":" + id)
LegacyBuildSessionLogger(p) ==
    /\ pc[p] = "lbuild"
    /\ LET lg == LegacyNewLogger(SessionPrefix(loc[p].endpoint, loc[p].id))
       IN /\ loggers' = Append(loggers, lg)
          /\ born' = Append(born, Birth("session", p, loc[p].endpoint, loc[p].id,
                                        LegacyResolved, NoLines))
    /\ pc' = [pc EXCEPT ![p] = "idle"]
    /\ loc' = [loc EXCEPT ![p] = NoLoc]
    /\ UNCHANGED <<ret, out, nwrites, lastWrite, cfgVars, idVars, legacyVars>>

NextLegacy ==
    \/ \E g \in DOMAIN gens : GenMake(g)
    \/ \E g \in DOMAIN gens : GenGenerate(g)
    \/ \E p \in Procs, d \in LogDirs, must \in BOOLEAN : InitalizeLogger(p, d, must)
    \/ \E p \in Procs : InitalizeFiles(p)
    \/ \E p \in Procs : InitalizeSpawn(p)
    \/ \E p \in Procs : InitalizeMark(p)
    \/ LegacyNewMasterLogger
    \/ \E p \in Procs, e \in Endpoints : LegacyNewSessionLogger(p, e)
    \/ \E p \in Procs : LegacyReceive(p)
    \/ \E p \in Procs : LegacyBuildSessionLogger(p)
    \/ \E i \in DOMAIN loggers, l \in LevelIndex, m \in Msgs : LogWrite(i, l, m)

SpecLegacy == InitLegacy /\ [][NextLegacy]_vars

\* ============================================================ properties

\* the tokens generator g has handed over: all it generated, but the one it
\* still holds in its pending send
Sent(g) == IF gens[g].pc = "send" THEN gens[g].n - 1 ELSE gens[g].n

SessionLoggers == {i \in DOMAIN loggers : born[i].kind = "session"}

\* C1: no two NewSessionLogger callers receive the same token: the tokens
\* received are pairwise distinct, every token the generator has handed over
\* was received by exactly one caller (the k-th receive holds the k-th token),
\* and the session loggers constructed hold pairwise distinct IDs.
C1_TokensReceivedOnce ==
    /\ \A i, j \in DOMAIN delivered :
          i # j => delivered[i].token # delivered[j].token
    /\ Len(delivered) = Sent(1)
    /\ \A k \in 1..Sent(1) :
          Cardinality({i \in DOMAIN delivered :
                          delivered[i].token = MustGenerate(1, k)}) = 1
    /\ \A i, j \in SessionLoggers : i # j => loggers[i].ID # loggers[j].ID

\* two goroutines have each received a token and built their session logger
C1_Witness ==
    /\ Len(delivered) >= 2
    /\ delivered[1].proc # delivered[2].proc
    /\ Cardinality(SessionLoggers) >= 2

\* C2: under fair scheduling every NewSessionLogger call that has reached its
\* receive eventually returns.
C2_EveryCallReturns ==
    \A p \in Procs : (pc[p] = "recv") ~> (pc[p] = "idle")

\* C3: GetWriter on a level outside {Info, Warn, Err} returns normally, and
\* returns what GetWriter(Info) returns on a zero-value config: standard output.
C3_GetWriterNeverFails ==
    (last.op = "GetWriter" /\ last.l \notin {Info, Warn, Err})
        => (last.panic = "none" /\ last.ret = GetWriter(ZeroConfig, Info)
            /\ last.ret = Stdout)

\* C4: once Disable(l) has returned for a valid level l, GetWriter(l) is the
\* discard sink in every later state, whatever Writer installed before or
\* after; a logger constructed since then has the discard sink at level l, and
\* a line logged through it reaches no stream.
C4_DisabledIsDiscarded ==
    /\ \A l \in disableCalled :
          /\ GetWriterCall(cfg, l) = Outcome("none", cfg, Discard)
          /\ (last.op = "GetWriter" /\ last.l = l) => last.ret = Discard
    /\ \A i \in DOMAIN loggers : \A l \in born[i].disabledBefore :
          LoggerSink(i, l) = Discard
    /\ (lastWrite.logger # 0
        /\ lastWrite.level \in born[lastWrite.logger].disabledBefore)
          => (lastWrite.sink = Discard /\ lastWrite.reached = {})

\* Disable(l) was called on a level for which Writer has installed recorders,
\* and a line was logged at that level through a logger constructed afterwards
C4_Witness ==
    /\ lastWrite.logger # 0
    /\ lastWrite.level \in born[lastWrite.logger].disabledBefore
    /\ cfg.Writers[lastWrite.level] = MultiWriter(<<"w1", "w2">>)

\* C5: Disable and Writer reject every level outside {Info, Warn, Err} with
\* the out-of-range panic of their level check, the config unchanged.
C5_RejectsOutOfRange ==
    (last.op \in {"Disable", "Writer"} /\ last.l \notin {Info, Warn, Err})
        => (last.panic = "LevelOutOfRange" /\ ~last.changed)

\* C6 as stated: the ID field of the logger NewSessionLogger(e) returns is
\* "@" + e + ":" + t, t the token the call received.
C6_IdIsComposed ==
    \A i \in SessionLoggers :
        loggers[i].ID = "@" \o born[i].endpoint \o ":" \o born[i].token

\* C6 as amended: the ID field of the logger NewSessionLogger(e) returns is
\* the token t the call received from the ID service, and "@" + e + ":" + t is
\* the prefix segment, between the level tag and ": ", of its three channels.
C6_IdIsToken ==
    \A i \in SessionLoggers :
        /\ \E k \in DOMAIN delivered :
              /\ delivered[k].proc = born[i].proc
              /\ delivered[k].token = born[i].token
        /\ loggers[i].ID = born[i].token
        /\ loggers[i].I.prefix =
              "INFO" \o "@" \o born[i].endpoint \o ":" \o born[i].token \o ": "
        /\ loggers[i].W.prefix =
              "WARN" \o "@" \o born[i].endpoint \o ":" \o born[i].token \o ": "
        /\ loggers[i].E.prefix =
              " ERR" \o "@" \o born[i].endpoint \o ":" \o born[i].token \o ": "

\* a session logger for the endpoint "foo" and one for the empty endpoint
C6_Witness ==
    /\ \E i \in SessionLoggers : born[i].endpoint = "foo"
    /\ \E i \in SessionLoggers : born[i].endpoint = ""

C8_OneGenerator ==
    /\ succeeded <= 1
    /\ Len(gens) <= 1

\* C9: MustInitalizeLogger panics if and only if InitalizeLogger returns a
\* non-nil error.
C9_MustPanicsIffError ==
    \A p \in Procs :
        ret[p].call = "MustInitalizeLogger"
            => ((ret[p].panic # "none") <=> (ret[p].err # "nil"))

\* C10: the writer of each level of a logger stays the one GetWriter resolved
\* when the logger was constructed, whatever Disable, Writer and field
\* assignments follow; a line logged later goes through that writer.
C10_SinksFixedAtConstruction ==
    /\ \A i \in DOMAIN loggers : \A l \in LevelIndex :
          LoggerSink(i, l) = born[i].resolved[l]
    /\ lastWrite.logger # 0
          => lastWrite.sink = born[lastWrite.logger].resolved[lastWrite.level]

\* a line was logged through a writer that the config no longer resolves for
\* that level, by a session logger and by a master logger
C10_Witness ==
    /\ lastWrite.logger # 0
    /\ lastWrite.sink # GetWriter(cfg, lastWrite.level)
    /\ last.op \in {"Disable", "Writer", "field"}
    /\ \E i \in DOMAIN loggers : born[i].kind = "session"
    /\ \E i \in DOMAIN loggers : born[i].kind = "master"

\* the master loggers constructed
MasterLoggers == {i \in DOMAIN loggers : born[i].kind = "master"}

\* C11: NewMasterLogger returns a Logger whose identity is "MASTER" (and whose
\* prefixes carry no session segment), writes no line while it constructs it,
\* and takes no token: every token handed over went to a NewSessionLogger
\* call; it can complete in every state, the ID service started or not.
C11_MasterLoggerIsPlain ==
    /\ \A i \in MasterLoggers :
          /\ loggers[i].ID = "MASTER"
          /\ loggers[i].I.prefix = "INFO: "
          /\ loggers[i].W.prefix = "WARN: "
          /\ loggers[i].E.prefix = " ERR: "
          /\ born[i].wrote = NoLines
          /\ born[i].token = ""
    /\ Sent(1) = Cardinality(SessionLoggers) + Cardinality({p \in Procs : pc[p] = "build"})
    /\ \A k \in DOMAIN delivered : delivered[k].proc \in Procs
    /\ (Len(loggers) + InFlight < MaxLoggers) => ENABLED NewMasterLogger

\* a master logger was constructed while the generator had not run and a
\* NewSessionLogger call waited on the nil channel
C11_Witness ==
    /\ MasterLoggers # {}
    /\ gens[1].pc = "start"
    /\ logIDService = 0
    /\ \E p \in Procs : pc[p] = "recv" /\ loc[p].ch = 0

\* C12: the k-th receive to complete holds the k-th token generated: none is
\* skipped, reordered or delivered twice; the generator holds at most one
\* token that no caller has received, and only while it waits in its send.
C12_GenerationOrder ==
    /\ \A k \in DOMAIN delivered :
          delivered[k].gen = 1 /\ delivered[k].token = MustGenerate(1, k)
    /\ gens[1].n - Len(delivered) \in {0, 1}
    /\ (gens[1].n - Len(delivered) = 1) <=> (gens[1].pc = "send")

\* two tokens were received and the generator waits with the third
C12_Witness ==
    /\ Len(delivered) = 2
    /\ gens[1].pc = "send"
    /\ gens[1].n = 3

\* C13: for a valid level on which neither Writer nor Disable has been called
\* GetWriter returns the level's default, standard output for Info and Warn and
\* standard error for Err, whatever was called on the other levels.
C13_UntouchedLevelHasDefault ==
    \A l \in {Info, Warn, Err} \ (disableCalled \cup writerCalled) :
        /\ GetWriterCall(cfg, l).panic = "none"
        /\ GetWriterCall(cfg, l).ret = IF l = Err THEN Stderr ELSE Stdout
        /\ (last.op = "GetWriter" /\ last.l = l)
              => (last.panic = "none"
                  /\ last.ret = IF l = Err THEN Stderr ELSE Stdout)

\* GetWriter(Err) was called after Writer or Disable on another level
C13_Witness ==
    /\ last.op = "GetWriter"
    /\ last.l = Err
    /\ Err \notin disableCalled \cup writerCalled
    /\ disableCalled \cup writerCalled # {}

\* the writer Writer(l, w1, w2) installs
FanOut == MultiWriter(<<"w1", "w2">>)

RECURSIVE IsSubSeq(_, _)
\* the lines of a are lines of b, in the same order
IsSubSeq(a, b) ==
    IF a = <<>> THEN TRUE
    ELSE IF b = <<>> THEN FALSE
    ELSE IF Head(a) = Head(b) THEN IsSubSeq(Tail(a), Tail(b))
    ELSE IsSubSeq(a, Tail(b))

\* C14: a line written through the writer of Writer(l, w1, w2), by a Println
\* of the program or by the blank line of NewSessionLogger, is appended once
\* and unmodified to w1 and to w2 and to no other stream; the lines of w2, all
\* of which came through that writer, are in w1 in the same order.
C14_FanOut ==
    /\ lastWrite.sink = FanOut
          => \E m \in Msgs :
                LET line == Level(loggers[lastWrite.logger], lastWrite.level).prefix
                               \o Header \o m \o "\n"
                IN lastWrite.wrote =
                      [NoLines EXCEPT !["w1"] = <<line>>, !["w2"] = <<line>>]
    /\ \A i \in SessionLoggers :
          born[i].resolved[Info] = FanOut
             => born[i].wrote =
                   [NoLines EXCEPT !["w1"] = <<loggers[i].I.prefix \o Header \o "\n">>,
                                   !["w2"] = <<loggers[i].I.prefix \o Header \o "\n">>]
    /\ IsSubSeq(out["w2"], out["w1"])

\* three lines went through the fan-out writer, the last one a Println
C14_Witness ==
    /\ Len(out["w2"]) = 3
    /\ lastWrite.sink = FanOut
    /\ out["w2"][3] = Level(loggers[lastWrite.logger], lastWrite.level).prefix
                         \o Header \o "m" \o "\n"

\* C15: an InitalizeLogger call that fails on os.MkdirAll or os.Create returns
\* that error (InitalizeLogger itself does not panic) and leaves the three
\* sinks, loggerInitted, the generators and logIDService as they were.
C15_FailedInitChangesNothing ==
    [][\A p \in Procs :
          (pc[p] = "files" /\ pc'[p] = "idle")
             => /\ ret'[p].err \in {"ErrMkdirAll", "ErrCreate"}
                /\ ret'[p].call = "InitalizeLogger" => ret'[p].panic = "none"
                /\ UNCHANGED <<infoLog, warnLog, errorLog, loggerInitted,
                               gens, logIDService>>]_vars

\* goroutine 1 made both calls of the run, goroutine 2 none: its first call
\* failed on the file system, its second returned nil
C15_Witness ==
    /\ ncalls = 2
    /\ succeeded = 1
    /\ ret[1].err = "nil"
    /\ ret[2] = NoRet
    /\ \A p \in Procs : pc[p] = "idle"
    /\ loggerInitted

\* how often stream s is listed in the writer w
Occurs(w, s) == Cardinality({k \in DOMAIN w.ws : w.ws[k] = s})

\* C16: the construction of a session logger writes one line, the blank
\* informational line "INFO@e:t: <header>\n", once to every stream of the
\* Info writer resolved for it (to none when Info is disabled), and nothing
\* else; the program's own lines through that logger come later.
C16_BlankInfoLine ==
    \A i \in SessionLoggers :
        LET line == "INFO" \o "@" \o born[i].endpoint \o ":" \o born[i].token
                       \o ": " \o Header \o "" \o "\n"
        IN /\ born[i].wrote =
                 [s \in Streams |->
                     [k \in 1..Occurs(born[i].resolved[Info], s) |-> line]]
           /\ born[i].resolved[Info] = Discard => born[i].wrote = NoLines
           /\ born[i].resolved[Info] = Stdout
                 => born[i].wrote = [NoLines EXCEPT !["stdout"] = <<line>>]

\* one session logger was constructed with Info on the fan-out writer, one
\* with Info disabled
C16_Witness ==
    /\ \E i \in SessionLoggers : born[i].resolved[Info] = FanOut
    /\ \E i \in SessionLoggers : born[i].resolved[Info] = Discard

\* C17: in the global-state version a NewSessionLogger call that has read the
\* nil logIDService stays in its receive for ever, whatever InitalizeLogger
\* and the generators do afterwards.
C17_NilReceiveNeverReturns ==
    [][\A p \in Procs :
          (pc[p] = "lrecv" /\ loc[p].ch = 0)
             => (pc'[p] = "lrecv" /\ loc'[p].ch = 0)]_vars

\* a call waits on the nil channel although InitalizeLogger has succeeded
\* since and a generator waits with a token
C17_Witness ==
    /\ \E p \in Procs : pc[p] = "lrecv" /\ loc[p].ch = 0
    /\ succeeded >= 1
    /\ logIDService \in DOMAIN gens
    /\ gens[logIDService].pc = "send"

\* C18: Disable(l) and Writer(l, ...) on a valid level l leave the Disabled
\* flag, the Writers entry and the answer of GetWriter of every other level as
\* they were; Disable leaves Writers[l], Writer leaves Disabled[l].
C18_OnlyThatLevel ==
    (last.op \in {"Disable", "Writer"} /\ last.l \in {Info, Warn, Err})
       => /\ \A k \in LevelIndex \ {last.l} :
                /\ cfg.Disabled[k] = last.before.Disabled[k]
                /\ cfg.Writers[k] = last.before.Writers[k]
                /\ GetWriterCall(cfg, k).ret = GetWriterCall(last.before, k).ret
          /\ last.op = "Disable" => cfg.Writers[last.l] = last.before.Writers[last.l]
          /\ last.op = "Writer" => cfg.Disabled[last.l] = last.before.Disabled[last.l]

\* Writer was called on a disabled level while another level had a writer
C18_Witness ==
    /\ last.op = "Writer"
    /\ last.l \in LevelIndex
    /\ last.before.Disabled[last.l]
    /\ cfg.Writers[last.l] # last.before.Writers[last.l]

====
